---------------------------- MODULE Spec2Model ----------------------------
(***************************************************************************)
(* Model of the pull-request review dashboard (React front end).           *)
(*                                                                         *)
(* The state is what the components hold between renders: the data of the  *)
(* react-query caches ['prs'] and ['reviews'], the filter state of the PR  *)
(* list, and the output of the last render.  The pure computations of the  *)
(* components (status text, status color, reviewer lists, metrics) are     *)
(* operators translated from the TypeScript source; render actions apply   *)
(* them to the cached data.                                                *)
(***************************************************************************)
EXTENDS Integers, Sequences, FiniteSets, TLC

VARIABLES
    prs,         \* data of useQuery(['prs'])      : sequence of PullRequest
    allReviews,  \* data of useQuery(['reviews'])  : sequence of Review
    filters,     \* useState<FilterState> of the PR list view
    isLoading,   \* isLoading of useQuery(['prs'])
    view,        \* output of the last render
    server,      \* the backend: status, roster and review log of its PR
    reviewsFor,  \* the prs array the resolved ['reviews'] queryFn mapped
                 \* over (its closure); empty while that query is unresolved
    reviewsStatus,  \* status of useQuery(['reviews']): pending, success, error
    ws,          \* useState<WebSocket | null>: 0 for null, else the number
                 \* of the socket that was set
    sockets,     \* readyState of every WebSocket the effect has created
    inbox,       \* push messages on their way to the browser
    fetching,    \* a fetch of ['prs'] started by refetch() is in flight
    localStorage,   \* the item 'comment-categorization-cache', if any
    now,         \* Date.now(), in hours
    categorization  \* the query ['comment-categorization']

socketVars == <<ws, sockets, inbox, fetching>>

cacheVars == <<localStorage, now, categorization>>

vars == <<prs, allReviews, filters, isLoading, view, server, reviewsFor,
          reviewsStatus, ws, sockets, inbox, fetching, localStorage, now,
          categorization>>

---------------------------------------------------------------------------
(* Bounds of the model                                                     *)

\* largest current_approvals_count a fetched PR carries
MaxApprovals == 5

\* largest number of Review records in the fetched review list
MaxReviews == 2

\* largest number of WebSockets the effect creates
MaxSockets == 2

\* largest number of push messages on their way at once
MaxInbox == 1

\* latest hour the clock reaches
MaxNow == 26

\* longest PR list of the overview: one more than the Recent Activity list
\* can show
MaxPRs == 6

---------------------------------------------------------------------------
(* Program constants                                                       *)

\* the length of the Recent Activity list: slice(0, 5)
RecentLimit == 5

\* the time-to-live of the categorization cache, in hours:
\* 24 * 60 * 60 * 1000 ms
CacheTTL == 24

\* the fixed approval threshold of Analytics and PRDetailPage
FixedThreshold == 5

\* reviewer chips shown per list before the "+n" chip
ChipLimit == 3

---------------------------------------------------------------------------
(* Data model: the PullRequest and Review interfaces                       *)

Reviewers == {"x", "y"}

Statuses == {"open", "merged", "closed"}

ReviewStates == {"commented", "approved", "changes_requested"}

\* github_pr_number values: the PR that is shown and one other PR whose
\* reviews share the ['reviews'] cache
PRNumbers == {1, 2}

Range(s) == {s[i] : i \in DOMAIN s}

\* arrays over S without repeated elements
NoDupSeqs(S) ==
    UNION {{s \in [1..n -> S] : \A i, j \in 1..n : s[i] = s[j] => i = j}
           : n \in 0..Cardinality(S)}

\* arrays over S of length at most n
SeqsUpTo(S, n) == UNION {[1..k -> S] : k \in 0..n}

\* interface PullRequest, with pending_reviewers a subset of
\* requested_reviewers
PullRequest(numbers, statuses, counts, times) ==
    {p \in [id : numbers,
            github_pr_number : numbers,
            status : statuses,
            current_approvals_count : counts,
            created_at : times,
            updated_at : times,
            requested_reviewers : NoDupSeqs(Reviewers),
            pending_reviewers : NoDupSeqs(Reviewers)] :
        /\ p.id = p.github_pr_number
        /\ Range(p.pending_reviewers) \subseteq Range(p.requested_reviewers)
        \* the roster order is never read: one order per roster
        /\ \A i, j \in DOMAIN p.requested_reviewers :
              i < j => p.requested_reviewers[i] # "y"}

\* interface Review
Review(numbers, times, flags) ==
    [pr_id : numbers,
     reviewer_username : Reviewers,
     review_state : ReviewStates,
     submitted_at : times,
     is_latest_review : flags]

\* interface FilterState
FilterState ==
    [status : {"all"} \cup Statuses,
     needsReview : BOOLEAN,
     hasChangesRequested : BOOLEAN,
     sortBy : {"created", "updated", "approvals"},
     sortOrder : {"asc", "desc"}]

\* initial value of useState<FilterState>
DefaultFilters ==
    [status |-> "all", needsReview |-> FALSE, hasChangesRequested |-> FALSE,
     sortBy |-> "updated", sortOrder |-> "desc"]

---------------------------------------------------------------------------
(* Array helpers of the source language                                    *)

\* Array.prototype.slice(0, n)
Slice0(s, n) == SubSeq(s, 1, IF Len(s) < n THEN Len(s) ELSE n)

\* Array.prototype.map(r => r.reviewer_username)
Usernames(s) == [i \in DOMAIN s |-> s[i].reviewer_username]

\* allReviews.filter(r => r.pr_id === pr.github_pr_number)
prReviews(reviews, pr) ==
    LET Mine(r) == r.pr_id = pr.github_pr_number
    IN SelectSeq(reviews, Mine)

IsChangesRequested(r) == r.review_state = "changes_requested"

IsApproved(r) == r.review_state = "approved"

IsCommented(r) == r.review_state = "commented"

\* reviews.some(r => r.review_state === 'changes_requested')
someChangesRequested(reviews) ==
    \E i \in DOMAIN reviews : IsChangesRequested(reviews[i])

---------------------------------------------------------------------------
(* PRCard.tsx                                                              *)

\* getStatusText with the 'closed' case of the first rule left out
getStatusText_mergedOnly(pr, reviews) ==
    LET a == pr.current_approvals_count
        p == Len(pr.pending_reviewers)
        totalRequired == a + p
    IN IF pr.status = "merged" THEN "Merged"
       ELSE IF p = 0 /\ a > 0 THEN "Ready to merge"
       ELSE IF a = 0 /\ totalRequired = 0 THEN "No reviewers assigned"
       ELSE IF a = 0 THEN "Needs review"
       ELSE IF someChangesRequested(reviews) THEN "Changes requested"
       ELSE ToString(a) \o "/" \o ToString(totalRequired) \o " approvals"

\* getStatusText with the changes-requested rule moved in front of the
\* approval rules
getStatusText_changesFirst(pr, reviews) ==
    LET a == pr.current_approvals_count
        p == Len(pr.pending_reviewers)
        totalRequired == a + p
    IN IF pr.status = "merged" \/ pr.status = "closed" THEN "Merged"
       ELSE IF someChangesRequested(reviews) THEN "Changes requested"
       ELSE IF p = 0 /\ a > 0 THEN "Ready to merge"
       ELSE IF a = 0 /\ totalRequired = 0 THEN "No reviewers assigned"
       ELSE IF a = 0 THEN "Needs review"
       ELSE ToString(a) \o "/" \o ToString(totalRequired) \o " approvals"

\* getStatusText with the fixed threshold as the denominator of the label
getStatusText_fixedTotal(pr, reviews) ==
    LET a == pr.current_approvals_count
        p == Len(pr.pending_reviewers)
        totalRequired == a + p
    IN IF pr.status = "merged" \/ pr.status = "closed" THEN "Merged"
       ELSE IF p = 0 /\ a > 0 THEN "Ready to merge"
       ELSE IF a = 0 /\ totalRequired = 0 THEN "No reviewers assigned"
       ELSE IF a = 0 THEN "Needs review"
       ELSE IF someChangesRequested(reviews) THEN "Changes requested"
       ELSE ToString(a) \o "/" \o ToString(FixedThreshold) \o " approvals"

\* getStatusText without the "Ready to merge" rule
getStatusText_noReady(pr, reviews) ==
    LET a == pr.current_approvals_count
        p == Len(pr.pending_reviewers)
        totalRequired == a + p
    IN IF pr.status = "merged" \/ pr.status = "closed" THEN "Merged"
       ELSE IF a = 0 /\ totalRequired = 0 THEN "No reviewers assigned"
       ELSE IF a = 0 THEN "Needs review"
       ELSE IF someChangesRequested(reviews) THEN "Changes requested"
       ELSE ToString(a) \o "/" \o ToString(totalRequired) \o " approvals"

\* getStatusText: the label of the status badge
getStatusText(pr, reviews) ==
    LET a == pr.current_approvals_count
        p == Len(pr.pending_reviewers)
        totalRequired == a + p
    IN IF pr.status = "merged" \/ pr.status = "closed" THEN "Merged"
       ELSE IF p = 0 /\ a > 0 THEN "Ready to merge"
       ELSE IF a = 0 /\ totalRequired = 0 THEN "No reviewers assigned"
       ELSE IF a = 0 THEN "Needs review"
       ELSE IF someChangesRequested(reviews) THEN "Changes requested"
       ELSE ToString(a) \o "/" \o ToString(totalRequired) \o " approvals"

\* const isReadyToMerge
isReadyToMerge(pr) ==
    Len(pr.pending_reviewers) = 0 /\ pr.current_approvals_count > 0

\* const isMerged
isMerged(pr) == pr.status = "merged" \/ pr.status = "closed"

\* className of the status badge (and of the color bar above it)
statusBadge(pr, statusColor) ==
    IF isMerged(pr) THEN "success"
    ELSE IF isReadyToMerge(pr) THEN "success"
    ELSE IF statusColor = "danger" THEN "danger"
    ELSE IF statusColor = "warning" THEN "warning"
    ELSE "primary"

\* className of the progress bar
progressBar(pr, statusColor) ==
    IF isReadyToMerge(pr) THEN "success"
    ELSE IF statusColor = "danger" THEN "danger"
    ELSE IF statusColor = "warning" THEN "warning"
    ELSE "primary"

\* progressPercentage measuring against the pending reviewers only
progressPercentage_pendingOnly(pr) ==
    LET p == Len(pr.pending_reviewers)
    IN IF p > 0
       THEN [num |-> pr.current_approvals_count * 100, den |-> p]
       ELSE [num |-> 0, den |-> 1]

\* progressPercentage measuring the share still pending
progressPercentage_remaining(pr) ==
    LET totalRequired ==
            pr.current_approvals_count + Len(pr.pending_reviewers)
    IN IF totalRequired > 0
       THEN [num |-> Len(pr.pending_reviewers) * 100, den |-> totalRequired]
       ELSE [num |-> 0, den |-> 1]

\* const progressPercentage: (approvals / totalRequired) * 100, or 0 when
\* totalRequired is 0; kept as the fraction num / den
progressPercentage(pr) ==
    LET totalRequired ==
            pr.current_approvals_count + Len(pr.pending_reviewers)
    IN IF totalRequired > 0
       THEN [num |-> pr.current_approvals_count * 100, den |-> totalRequired]
       ELSE [num |-> 0, den |-> 1]

\* width of the progress bar: Math.min(progressPercentage, 100), in percent
barWidth(pct) ==
    IF pct.num < 100 * pct.den THEN pct ELSE [num |-> 100, den |-> 1]

\* const approvedReviewers
approvedReviewers(reviews) == SelectSeq(reviews, IsApproved)

\* const changesRequestedReviewers
changesRequestedReviewers(reviews) == SelectSeq(reviews, IsChangesRequested)

\* the PRCard component: what one card shows for its props
PRCard(pr, reviews, statusColor) ==
    LET totalRequired ==
            pr.current_approvals_count + Len(pr.pending_reviewers)
    IN [pr |-> pr,
        reviews |-> reviews,
        statusColor |-> statusColor,
        label |-> getStatusText(pr, reviews),
        badge |-> statusBadge(pr, statusColor),
        bar |-> progressBar(pr, statusColor),
        totalRequired |-> totalRequired,
        showProgress |-> totalRequired > 0,
        progressPercentage |-> progressPercentage(pr),
        barWidth |-> barWidth(progressPercentage(pr)),
        \* the three reviewer rows: chips shown and the "+n" overflow
        approved |->
            Usernames(Slice0(approvedReviewers(reviews), ChipLimit)),
        approvedAll |-> Usernames(approvedReviewers(reviews)),
        changes |->
            Usernames(Slice0(changesRequestedReviewers(reviews), ChipLimit)),
        changesAll |-> Usernames(changesRequestedReviewers(reviews)),
        pending |-> Slice0(pr.pending_reviewers, ChipLimit),
        pendingAll |-> pr.pending_reviewers]

---------------------------------------------------------------------------
(* Dashboard.tsx, the PR list view (first Dashboard component)             *)

\* getStatusColor without the "no reviewers assigned" rule
getStatusColor_noUnassigned(pr, reviews) ==
    LET a == pr.current_approvals_count
        p == Len(pr.pending_reviewers)
    IN IF p = 0 /\ a > 0 THEN "success"
       ELSE IF a = 0 THEN "danger"
       ELSE IF someChangesRequested(prReviews(reviews, pr)) THEN "warning"
       ELSE "primary"

\* getStatusColor with the changes-requested check moved to the front
getStatusColor_changesFirst(pr, reviews) ==
    LET a == pr.current_approvals_count
        p == Len(pr.pending_reviewers)
        totalRequired == a + p
    IN IF someChangesRequested(prReviews(reviews, pr)) THEN "warning"
       ELSE IF p = 0 /\ a > 0 THEN "success"
       ELSE IF a = 0 /\ totalRequired = 0 THEN "primary"
       ELSE IF a = 0 THEN "danger"
       ELSE "primary"

\* getStatusColor with the colors of "needs review" and "changes
\* requested" exchanged
getStatusColor_swapped(pr, reviews) ==
    LET a == pr.current_approvals_count
        p == Len(pr.pending_reviewers)
        totalRequired == a + p
    IN IF p = 0 /\ a > 0 THEN "success"
       ELSE IF a = 0 /\ totalRequired = 0 THEN "primary"
       ELSE IF a = 0 THEN "warning"
       ELSE IF someChangesRequested(prReviews(reviews, pr)) THEN "danger"
       ELSE "primary"

\* getStatusColor: the statusColor prop handed to every card; reviews is
\* the allReviews the closure reads
getStatusColor(pr, reviews) ==
    LET a == pr.current_approvals_count
        p == Len(pr.pending_reviewers)
        totalRequired == a + p
    IN IF p = 0 /\ a > 0 THEN "success"
       ELSE IF a = 0 /\ totalRequired = 0 THEN "primary"
       ELSE IF a = 0 THEN "danger"
       ELSE IF someChangesRequested(prReviews(reviews, pr)) THEN "warning"
       ELSE "primary"

\* filteredPRs applying only the first filter that is active
applyFilters_firstActive(list, reviews, f) ==
    LET ByStatus(pr) == pr.status = f.status
        NoApprovals(pr) == pr.current_approvals_count = 0
        HasChanges(pr) == someChangesRequested(prReviews(reviews, pr))
    IN IF f.status # "all" THEN SelectSeq(list, ByStatus)
       ELSE IF f.needsReview THEN SelectSeq(list, NoApprovals)
       ELSE IF f.hasChangesRequested THEN SelectSeq(list, HasChanges)
       ELSE list

\* the three filters of filteredPRs, applied one after the other
applyFilters(list, reviews, f) ==
    LET ByStatus(pr) == pr.status = f.status
        NoApprovals(pr) == pr.current_approvals_count = 0
        HasChanges(pr) == someChangesRequested(prReviews(reviews, pr))
        s1 == IF f.status # "all" THEN SelectSeq(list, ByStatus) ELSE list
        s2 == IF f.needsReview THEN SelectSeq(s1, NoApprovals) ELSE s1
    IN IF f.hasChangesRequested THEN SelectSeq(s2, HasChanges) ELSE s2

\* aValue / bValue of the sort comparator
sortValue(pr, sortBy) ==
    CASE sortBy = "created" -> pr.created_at
      [] sortBy = "updated" -> pr.updated_at
      [] sortBy = "approvals" -> pr.current_approvals_count

\* the comparator without its sortOrder branch: always ascending
compare_ascendingOnly(a, b, f) ==
    IF sortValue(a, f.sortBy) > sortValue(b, f.sortBy) THEN 1 ELSE -1

\* the comparator handed to filtered.sort: 1 or -1, never 0
compare(a, b, f) ==
    IF f.sortOrder = "asc"
    THEN IF sortValue(a, f.sortBy) > sortValue(b, f.sortBy) THEN 1 ELSE -1
    ELSE IF sortValue(a, f.sortBy) < sortValue(b, f.sortBy) THEN 1 ELSE -1

\* Array.prototype.sort with that comparator: the arrangements of the
\* array in which no element the comparator puts strictly after another
\* (result 1) stands before it.  For equal keys the comparator answers -1
\* in both directions, and the order of such elements is left to the
\* engine: every arrangement of them is a possible result.
sortOutcomes(list, f) ==
    LET n == Len(list)
        perms == {q \in [1..n -> 1..n] : \A i, j \in 1..n : q[i] = q[j] => i = j}
        arranged(q) == [i \in 1..n |-> list[q[i]]]
    IN {arranged(q) : q \in {r \in perms :
            \A i, j \in 1..n :
                i < j => compare(list[r[i]], list[r[j]], f) # 1}}

\* filteredPRs sorting the prs array itself when no filter made a new one
afterFilteredPRs_noCopy(list, reviews, f) ==
    IF f.status = "all" /\ ~f.needsReview /\ ~f.hasChangesRequested
    THEN CHOOSE out \in sortOutcomes(list, f) : TRUE
    ELSE list

\* the prs array after filteredPRs has run: `let filtered = [...prs]` is a
\* copy and Array.prototype.filter returns new arrays, so the in-place
\* sort rearranges an array of its own
afterFilteredPRs(list, reviews, f) == list

\* const filteredPRs (useMemo): the arrays it can evaluate to
filteredPRs(list, reviews, f) == sortOutcomes(applyFilters(list, reviews, f), f)

\* <PRCard pr reviews statusColor/> as the list view instantiates it
listCard(pr, reviews) ==
    PRCard(pr, prReviews(reviews, pr), getStatusColor(pr, reviews))

---------------------------------------------------------------------------
(* Analytics.tsx                                                           *)

\* trendValue of the "Open PRs" card: ((openPRs / totalPRs) * 100)
\* .toFixed(0) followed by "%".  0 / 0 is NaN, and NaN.toFixed(0) is "NaN";
\* toFixed rounds to the nearest integer, a half upwards.
openTrendValue(openPRs, totalPRs) ==
    IF totalPRs = 0 THEN "NaN%"
    ELSE ToString((200 * openPRs + totalPRs) \div (2 * totalPRs)) \o "%"

\* the metrics of the Analytics component
Analytics(list, reviews) ==
    LET IsOpen(pr) == pr.status = "open"
        NoApprovals(pr) == pr.current_approvals_count = 0
        HasChanges(pr) == someChangesRequested(prReviews(reviews, pr))
        AtThreshold(pr) == pr.current_approvals_count >= FixedThreshold
        Done(pr) == pr.status = "merged" \/ pr.status = "closed"
    IN [totalPRs |-> Len(list),
        openPRs |-> Len(SelectSeq(list, IsOpen)),
        openTrendValue |->
            openTrendValue(Len(SelectSeq(list, IsOpen)), Len(list)),
        prsNeedingReview |-> Len(SelectSeq(list, NoApprovals)),
        prsWithChangesRequested |-> Len(SelectSeq(list, HasChanges)),
        readyToMerge |-> Len(SelectSeq(list, AtThreshold)),
        mergedPRs |-> Len(SelectSeq(list, Done))]

---------------------------------------------------------------------------
(* Dashboard.tsx, the overview (second Dashboard component)                *)

\* const stats (useMemo)
stats(list, reviews) ==
    LET IsOpen(pr) == pr.status = "open"
        IsMergedStatus(pr) == pr.status = "merged"
        NeedsReview(pr) ==
            pr.current_approvals_count = 0 /\ pr.status = "open"
        Ready(pr) ==
            /\ Len(pr.pending_reviewers) = 0
            /\ pr.current_approvals_count > 0
            /\ pr.status = "open"
        HasChanges(pr) == someChangesRequested(prReviews(reviews, pr))
    IN [total |-> Len(list),
        open |-> Len(SelectSeq(list, IsOpen)),
        merged |-> Len(SelectSeq(list, IsMergedStatus)),
        needingReview |-> Len(SelectSeq(list, NeedsReview)),
        readyToMerge |-> Len(SelectSeq(list, Ready)),
        changesRequested |-> Len(SelectSeq(list, HasChanges))]

\* Array.prototype.sort with the comparator
\* new Date(b.updated_at) - new Date(a.updated_at): a consistent
\* comparator, so the sort is stable; PRs with the same updated_at keep
\* their order
sortByUpdatedDesc(list) ==
    LET F[n \in 0..Len(list)] ==
            IF n = 0 THEN <<>>
            ELSE LET x == list[n]
                     sorted == F[n - 1]
                     NotOlder(pr) == pr.updated_at >= x.updated_at
                     Older(pr) == pr.updated_at < x.updated_at
                 IN SelectSeq(sorted, NotOlder) \o <<x>>
                       \o SelectSeq(sorted, Older)
    IN F[Len(list)]

\* recentPRs without its sort
recentPRs_unsorted(list) ==
    LET IsOpen(pr) == pr.status = "open"
    IN Slice0(SelectSeq(list, IsOpen), RecentLimit)

\* recentPRs sorting the prs array itself
afterRecentPRs_noFilter(list) == sortByUpdatedDesc(list)

\* the prs array after recentPRs has run: prs.filter(...) returns a new
\* array, and the in-place sort rearranges that one
afterRecentPRs(list) == list

\* const recentPRs (useMemo): filter, sort, slice(0, 5)
recentPRs(list) ==
    LET IsOpen(pr) == pr.status = "open"
    IN Slice0(sortByUpdatedDesc(SelectSeq(list, IsOpen)), RecentLimit)

\* one row of the Recent Activity list: the inline statusColor and the
\* inline badge text
recentItem(pr, reviews) ==
    LET a == pr.current_approvals_count
        p == Len(pr.pending_reviewers)
    IN [pr |-> pr,
        reviews |-> prReviews(reviews, pr),
        statusColor |-> IF p = 0 /\ a > 0 THEN "success"
                        ELSE IF a = 0 THEN "warning"
                        ELSE "primary",
        label |-> IF p = 0 /\ a > 0 THEN "Ready to merge"
                  ELSE IF a = 0 THEN "Needs review"
                  ELSE "In progress"]

---------------------------------------------------------------------------
(* PRDetailPage.tsx                                                        *)

\* the "Status" block of the detail page of one PR
detailStatus(pr, reviews) ==
    LET a == pr.current_approvals_count
    IN [pr |-> pr,
        approvalsText |-> ToString(a) \o "/" \o ToString(FixedThreshold),
        totalShown |-> FixedThreshold,
        barSuccess |-> a >= FixedThreshold,
        readyBadge |-> a >= FixedThreshold,
        needsReviewBadge |-> a = 0,
        changesBadge |-> Len(changesRequestedReviewers(reviews)) > 0]

---------------------------------------------------------------------------
(* The backend, as the data model describes it: one PR, its roster and    *)
(* the log of the reviews submitted so far                                 *)

\* the records of reviewer u in a review log
recordsOf(log, u) ==
    LET ByU(r) == r.reviewer_username = u IN SelectSeq(log, ByU)

\* the reviewers whose most recent record in the log is an approval
latestApprovers(log) ==
    {u \in Reviewers :
        /\ recordsOf(log, u) # <<>>
        /\ recordsOf(log, u)[Len(recordsOf(log, u))].review_state = "approved"}

\* GET /api/prs: the PR with its pre-aggregated approval count and the
\* requested reviewers who have not submitted any review yet
serverPRs(srv) ==
    LET Silent(u) == recordsOf(srv.reviews, u) = <<>>
    IN <<[id |-> 1,
          github_pr_number |-> 1,
          status |-> srv.status,
          current_approvals_count |-> Cardinality(latestApprovers(srv.reviews)),
          created_at |-> 1,
          updated_at |-> 1 + Len(srv.reviews),
          requested_reviewers |-> srv.requested_reviewers,
          pending_reviewers |-> SelectSeq(srv.requested_reviewers, Silent)]>>

\* GET /api/prs/{number}/reviews
serverReviews(srv, number) ==
    LET Mine(r) == r.pr_id = number IN SelectSeq(srv.reviews, Mine)

\* no backend in sight: the caches are given
NoServer ==
    [status |-> "open", requested_reviewers |-> <<>>, reviews |-> <<>>,
     failing |-> {}]

---------------------------------------------------------------------------
(* State machine                                                           *)

\* nothing rendered yet; every part of a view is an array, empty when the
\* route does not show it
NoView ==
    [route |-> "none", cards |-> <<>>, analytics |-> <<>>, stats |-> <<>>,
     detail |-> <<>>, recent |-> <<>>]

\* if (isLoading) return <spinner/>
spinner(route) ==
    [route |-> route, cards |-> <<>>, analytics |-> <<>>, stats |-> <<>>,
     detail |-> <<>>, recent |-> <<>>]

\* what the PR list view can render: Analytics, then one card per
\* filtered PR
pullRequestsViews(list, reviews, f, loading) ==
    IF loading THEN {spinner("/pull-requests")}
    ELSE {[route |-> "/pull-requests",
           cards |-> [i \in DOMAIN shown |-> listCard(shown[i], reviews)],
           analytics |-> <<Analytics(list, reviews)>>,
           stats |-> <<>>,
           detail |-> <<>>,
           recent |-> <<>>] : shown \in filteredPRs(list, reviews, f)}

\* what the overview renders: the quick stats and Analytics
dashboardViews(list, reviews, loading) ==
    IF loading THEN {spinner("/")}
    ELSE LET recent == recentPRs(list)
         IN {[route |-> "/",
              cards |-> <<>>,
              analytics |-> <<Analytics(list, reviews)>>,
              stats |-> <<stats(list, reviews)>>,
              detail |-> <<>>,
              recent |-> [i \in DOMAIN recent |->
                             recentItem(recent[i], reviews)]]}

\* the mounted Dashboard component renders again when its data changes
rerender(route, list, reviews, f, loading) ==
    IF route = "/pull-requests"
    THEN pullRequestsViews(list, reviews, f, loading)
    ELSE dashboardViews(list, reviews, loading)

\* the prs array after the memos of the mounted component have run
afterRender(route, list, reviews, f) ==
    IF route = "/pull-requests"
    THEN afterFilteredPRs(list, reviews, f)
    ELSE afterRecentPRs(list)

\* the PR list view is shown
RenderPullRequests ==
    /\ view' \in pullRequestsViews(prs, allReviews, filters, isLoading)
    /\ prs' = afterFilteredPRs(prs, allReviews, filters)
    /\ UNCHANGED <<allReviews, filters, isLoading, server, reviewsFor,
                 reviewsStatus, socketVars, cacheVars>>

\* the overview is shown; the list view is unmounted and its filter state
\* is gone: the next mount starts from the initial value again
RenderDashboard ==
    /\ view' \in dashboardViews(prs, allReviews, isLoading)
    /\ prs' = afterRecentPRs(prs)
    /\ filters' = DefaultFilters
    /\ UNCHANGED <<allReviews, isLoading, server, reviewsFor, reviewsStatus,
                 socketVars, cacheVars>>

\* the detail page of PR number n is shown: prs.find, then the status
\* block, or "PR Not Found"; its own reviews query returns the reviews of
\* that PR
RenderPRDetailPage ==
    /\ \E n \in PRNumbers :
          LET found == {i \in DOMAIN prs : prs[i].github_pr_number = n}
              pr == prs[CHOOSE i \in found : \A j \in found : i <= j]
              reviews == LET Mine(r) == r.pr_id = n IN SelectSeq(allReviews, Mine)
          IN view' = [route |-> "/pr",
                      cards |-> <<>>,
                      analytics |-> <<>>,
                      stats |-> <<>>,
                      detail |-> IF found = {} THEN <<>>
                                 ELSE <<detailStatus(pr, reviews)>>,
                      recent |-> <<>>]
    /\ UNCHANGED <<prs, allReviews, filters, isLoading, server, reviewsFor,
                 reviewsStatus, socketVars, cacheVars>>

\* the FilterBar is on screen: the PR list view is past its spinner
FilterBarShown == view.route = "/pull-requests" /\ ~isLoading

\* onFiltersChange = setFilters: the new filter state, and the list view
\* renders again
setFilters(f) ==
    /\ filters' = f
    /\ view' \in pullRequestsViews(prs, allReviews, f, isLoading)
    /\ prs' = afterFilteredPRs(prs, allReviews, f)
    /\ UNCHANGED <<allReviews, isLoading, server, reviewsFor, reviewsStatus,
                 socketVars, cacheVars>>

\* FilterBar.updateFilter(key, value), from the status and sortBy selects
\* and the two checkboxes: onFiltersChange({...filters, [key]: value})
updateFilter ==
    /\ FilterBarShown
    /\ \E f \in FilterState :
          /\ f.sortOrder = filters.sortOrder
          /\ Cardinality({k \in {"status", "needsReview",
                                  "hasChangesRequested", "sortBy"} :
                              f[k] # filters[k]}) = 1
          /\ setFilters(f)

\* FilterBar.toggleSortOrder
toggleSortOrder ==
    /\ FilterBarShown
    /\ setFilters([filters EXCEPT
                      !.sortOrder = IF @ = "asc" THEN "desc" ELSE "asc"])

\* const hasActiveFilters of the FilterBar
hasActiveFilters(f) ==
    f.status # "all" \/ f.needsReview \/ f.hasChangesRequested

\* FilterBar.clearFilters, behind the "Clear Filters" button that is shown
\* while a filter is active
clearFilters ==
    /\ FilterBarShown
    /\ hasActiveFilters(filters)
    /\ setFilters(DefaultFilters)

\* a Dashboard component is mounted: its queries and timers are alive
DashboardMounted == view.route \in {"/", "/pull-requests"}

\* what a push message can be: the type the handler knows, another type,
\* and data that is not JSON
MessageTypes == {"prs_updated", "review_added", "malformed"}

\* onmessage with the type test left out: any message that parses refetches
onmessage_anyParsed(type) == type # "malformed"

\* websocket.onmessage: whether the handler calls refetch().  JSON.parse
\* throws on data that is not JSON and the handler ends there.
onmessage(type) == type = "prs_updated"

\* the cleanup of the effect: websocket.close() on the socket it created
cleanup(socks) ==
    IF socks # <<>> /\ socks[Len(socks)] \in {"connecting", "open"}
    THEN [socks EXCEPT ![Len(socks)] = "closing"]
    ELSE socks

\* the WebSocket effect runs after the first render of a mounted
\* Dashboard: new WebSocket(wsUrl)
WebSocketEffect ==
    /\ DashboardMounted
    /\ sockets = <<>>
    /\ sockets' = <<"connecting">>
    /\ UNCHANGED <<prs, allReviews, filters, isLoading, view, server,
                   reviewsFor, reviewsStatus, ws, inbox, fetching, cacheVars>>

\* the effect runs again in the same component, as React does when the
\* dependency [refetch] changes and when it re-runs effects: the cleanup
\* closes the socket of the previous run, then a new socket is created;
\* the state ws is kept
WebSocketEffectAgain ==
    /\ DashboardMounted
    /\ sockets # <<>>
    /\ Len(sockets) < MaxSockets
    /\ sockets' = Append(cleanup(sockets), "connecting")
    /\ UNCHANGED <<prs, allReviews, filters, isLoading, view, server,
                   reviewsFor, reviewsStatus, ws, inbox, fetching, cacheVars>>

\* websocket.onopen: setWs(websocket)
SocketOpen ==
    /\ \E i \in DOMAIN sockets :
          /\ sockets[i] = "connecting"
          /\ sockets' = [sockets EXCEPT ![i] = "open"]
          /\ ws' = i
    /\ UNCHANGED <<prs, allReviews, filters, isLoading, view, server,
                   reviewsFor, reviewsStatus, inbox, fetching, cacheVars>>

\* websocket.onclose, after close() or when the connection is lost or
\* refused: setWs(null)
SocketClose ==
    /\ \E i \in DOMAIN sockets :
          /\ sockets[i] # "closed"
          /\ sockets' = [sockets EXCEPT ![i] = "closed"]
          /\ ws' = 0
    /\ UNCHANGED <<prs, allReviews, filters, isLoading, view, server,
                   reviewsFor, reviewsStatus, inbox, fetching, cacheVars>>

\* the backend sends a message to an open socket
ServerPush ==
    /\ Len(inbox) < MaxInbox
    /\ \E i \in DOMAIN sockets, type \in MessageTypes :
          /\ sockets[i] = "open"
          /\ inbox' = Append(inbox, [socket |-> i, type |-> type])
    /\ UNCHANGED <<prs, allReviews, filters, isLoading, view, server,
                   reviewsFor, reviewsStatus, ws, sockets, fetching,
                   cacheVars>>

\* a message arrives: a socket that is no longer open drops it, an open
\* one hands it to websocket.onmessage
OnMessage ==
    /\ inbox # <<>>
    /\ inbox' = Tail(inbox)
    /\ fetching' = IF /\ sockets[Head(inbox).socket] = "open"
                      /\ onmessage(Head(inbox).type)
                   THEN TRUE
                   ELSE fetching
    /\ UNCHANGED <<prs, allReviews, filters, isLoading, view, server,
                   reviewsFor, reviewsStatus, ws, sockets, cacheVars>>

\* queryFn of ['prs'] resolves (first fetch, 30 s poll or refetch()): the
\* cache takes the response and the component renders again
FetchPRs ==
    /\ DashboardMounted
    /\ view' \in rerender(view.route, serverPRs(server), allReviews, filters,
                          FALSE)
    /\ prs' = afterRender(view.route, serverPRs(server), allReviews, filters)
    /\ isLoading' = FALSE
    /\ fetching' = FALSE
    /\ UNCHANGED <<allReviews, filters, server, reviewsFor, reviewsStatus,
                 ws, sockets, inbox, cacheVars>>

\* the requests of the list that the backend fails
rejected(srv, list) ==
    {i \in DOMAIN list : list[i].github_pr_number \in srv.failing}

\* responses.flatMap(...): the responses concatenated in the order of the
\* list; in the overview a failed request has been replaced by [] in its
\* .catch(() => [])
flatMap(srv, list) ==
    LET F[n \in 0..Len(list)] ==
            IF n = 0 THEN <<>>
            ELSE F[n - 1] \o (IF n \in rejected(srv, list) THEN <<>>
                              ELSE serverReviews(srv,
                                                 list[n].github_pr_number))
    IN F[Len(list)]

\* whether queryFn of ['reviews'] rejects: in the list view Promise.all
\* takes the requests as they are, so one failed request rejects it; in
\* the overview every request has its own catch
queryRejects(route, srv, list) ==
    route = "/pull-requests" /\ rejected(srv, list) # {}

\* queryFn of ['reviews'] settles (enabled: prs.length > 0): one request
\* per PR of the cached list; when it rejects the query is in error and
\* its data stays what it was
FetchReviews ==
    /\ DashboardMounted
    /\ Len(prs) > 0
    /\ IF queryRejects(view.route, server, prs)
       THEN /\ reviewsStatus' = "error"
            /\ UNCHANGED <<prs, allReviews, view, reviewsFor>>
       ELSE /\ allReviews' = flatMap(server, prs)
            /\ view' \in rerender(view.route, prs, allReviews', filters,
                                  isLoading)
            /\ prs' = afterRender(view.route, prs, allReviews', filters)
            /\ reviewsFor' = prs'
            /\ reviewsStatus' = "success"
    /\ UNCHANGED <<filters, isLoading, server, socketVars, cacheVars>>

\* a reviewer submits a review of the open PR: the backend appends the
\* record and clears the is_latest_review flag of the reviewer's earlier
\* records
SubmitReview ==
    /\ server.status = "open"
    /\ Len(server.reviews) < MaxReviews
    /\ \E u \in Reviewers, st \in ReviewStates :
          LET older == [i \in DOMAIN server.reviews |->
                          IF server.reviews[i].reviewer_username = u
                          THEN [server.reviews[i] EXCEPT !.is_latest_review = FALSE]
                          ELSE server.reviews[i]]
              record == [pr_id |-> 1,
                         reviewer_username |-> u,
                         review_state |-> st,
                         submitted_at |-> 1 + Len(server.reviews),
                         is_latest_review |-> TRUE]
          IN server' = [server EXCEPT !.reviews = Append(older, record)]
    /\ UNCHANGED <<prs, allReviews, filters, isLoading, view, reviewsFor,
                 reviewsStatus, socketVars, cacheVars>>

---------------------------------------------------------------------------
(* The categorization cache in localStorage and its query                  *)

\* the responses of GET /api/analytics/comment-categorization
CategorizationData == {"a", "b"}

\* what the item 'comment-categorization-cache' can hold: text that is
\* not JSON, or an entry whose timestamp parses to an hour or does not
\* parse (no timestamp in the sequence)
StoredEntry ==
    [json : BOOLEAN,
     timestamp : {<<>>} \cup {<<t>> : t \in 0..MaxNow},
     data : CategorizationData]

\* the try block of getCachedCategorizationData / getCachedData:
\* JSON.parse throws on text that is not JSON; an unparsable timestamp
\* gives a cacheAge of NaN, and NaN < ttl is false
tryGetCached(storage, t) ==
    IF storage = <<>> THEN [threw |-> FALSE, value |-> <<>>]
    ELSE IF ~storage[1].json THEN [threw |-> TRUE, value |-> <<>>]
    ELSE IF storage[1].timestamp = <<>> THEN [threw |-> FALSE, value |-> <<>>]
    ELSE IF t - storage[1].timestamp[1] < CacheTTL
         THEN [threw |-> FALSE, value |-> <<storage[1].data>>]
         ELSE [threw |-> FALSE, value |-> <<>>]

\* getCachedCategorizationData accepting an entry of exactly 24 hours
getCachedCategorizationData_inclusive(storage, t) ==
    IF storage # <<>> /\ storage[1].json /\ storage[1].timestamp # <<>>
       /\ t - storage[1].timestamp[1] <= CacheTTL
    THEN [threw |-> FALSE, value |-> <<storage[1].data>>]
    ELSE [threw |-> FALSE, value |-> <<>>]

\* getCachedCategorizationData / getCachedData: the try block, and
\* undefined after the catch
getCachedCategorizationData(storage, t) ==
    IF tryGetCached(storage, t).threw
    THEN [threw |-> FALSE, value |-> <<>>]
    ELSE tryGetCached(storage, t)

\* the try block of saveCachedCategorizationData / saveCachedData:
\* localStorage.setItem throws when the storage cannot be written
trySaveCached(storage, data, t, writable) ==
    IF writable
    THEN [threw |-> FALSE,
          storage |-> <<[json |-> TRUE, timestamp |-> <<t>>, data |-> data]>>]
    ELSE [threw |-> TRUE, storage |-> storage]

\* saveCachedCategorizationData without its catch
saveCachedCategorizationData_noCatch(storage, data, t, writable) ==
    trySaveCached(storage, data, t, writable)

\* saveCachedCategorizationData / saveCachedData: the try block, and the
\* error logged in the catch
saveCachedCategorizationData(storage, data, t, writable) ==
    [threw |-> FALSE,
     storage |-> trySaveCached(storage, data, t, writable).storage]

\* the query is set up: initialData: getCachedCategorizationData
CategorizationMount ==
    /\ categorization.status = "idle"
    /\ LET read == getCachedCategorizationData(localStorage, now)
       IN categorization' =
             IF read.threw
             THEN [categorization EXCEPT !.status = "crashed"]
             ELSE [categorization EXCEPT !.status = "initial",
                                         !.data = read.value]
    /\ UNCHANGED <<prs, allReviews, filters, isLoading, view, server,
                   reviewsFor, reviewsStatus, socketVars, localStorage, now>>

\* queryFn starts and the backend answers; the response is on its way
CategorizationRequest ==
    /\ categorization.status \in {"initial", "success", "error"}
    /\ categorization.inFlight = <<>>
    /\ \E d \in CategorizationData :
          categorization' = [categorization EXCEPT !.inFlight = <<d>>]
    /\ UNCHANGED <<prs, allReviews, filters, isLoading, view, server,
                   reviewsFor, reviewsStatus, socketVars, localStorage, now>>

\* queryFn goes on after axios.get: it saves the response, which the
\* storage accepts or refuses, and returns it
CategorizationResolve ==
    /\ categorization.status # "idle"
    /\ categorization.inFlight # <<>>
    /\ \E writable \in BOOLEAN :
          LET d == categorization.inFlight[1]
              saved == saveCachedCategorizationData(localStorage, d, now,
                                                    writable)
          IN /\ localStorage' = saved.storage
             /\ categorization' =
                   IF saved.threw
                   THEN [categorization EXCEPT !.status = "error",
                                               !.inFlight = <<>>]
                   ELSE [status |-> "success", data |-> <<d>>,
                         inFlight |-> <<>>]
    /\ UNCHANGED <<prs, allReviews, filters, isLoading, view, server,
                   reviewsFor, reviewsStatus, socketVars, now>>

\* the page is left or reloaded: the query is gone, the storage stays
CategorizationUnmount ==
    /\ categorization.status # "idle"
    /\ categorization' = [status |-> "idle", data |-> <<>>, inFlight |-> <<>>]
    /\ UNCHANGED <<prs, allReviews, filters, isLoading, view, server,
                   reviewsFor, reviewsStatus, socketVars, localStorage, now>>

\* time passes: an hour, or most of a day
Tick ==
    /\ \E d \in {1, 23} :
          /\ now + d <= MaxNow
          /\ now' = now + d
    /\ UNCHANGED <<prs, allReviews, filters, isLoading, view, server,
                   reviewsFor, reviewsStatus, socketVars, localStorage,
                   categorization>>

\* no WebSocket has been created and no refetch is under way
NoSocket == ws = 0 /\ sockets = <<>> /\ inbox = <<>> /\ fetching = FALSE

\* the categorization query has not been set up and nothing is stored
NoCategorization ==
    /\ localStorage = <<>>
    /\ now = 0
    /\ categorization = [status |-> "idle", data |-> <<>>, inFlight |-> <<>>]

\* one PR with any status, approval count and roster; reviews of it and of
\* another PR, all submitted at the same time; both queries have resolved
Init ==
    /\ prs \in {<<p>> : p \in PullRequest({1}, Statuses, 0..MaxApprovals, {1})}
    /\ allReviews \in SeqsUpTo(Review(PRNumbers, {1}, {TRUE}), MaxReviews)
    /\ filters = DefaultFilters
    /\ isLoading = FALSE
    /\ server = NoServer
    /\ view = NoView
    /\ reviewsFor = prs
    /\ reviewsStatus = "success"
    /\ NoSocket
    /\ NoCategorization

Next ==
    \/ RenderPullRequests
    \/ RenderDashboard
    \/ RenderPRDetailPage

Spec == Init /\ [][Next]_vars

\* the page has just been opened: nothing fetched, nothing rendered; the
\* backend holds one PR with some roster and no review yet
InitFetch ==
    /\ prs = <<>>
    /\ allReviews = <<>>
    /\ filters = DefaultFilters
    /\ isLoading = TRUE
    /\ server \in [status : Statuses,
                    requested_reviewers : {<<>>, <<"x">>, <<"y">>, <<"x", "y">>},
                    reviews : {<<>>},
                    failing : {{}}]
    /\ view = NoView
    /\ reviewsFor = <<>>
    /\ reviewsStatus = "pending"
    /\ NoSocket
    /\ NoCategorization

NextFetch ==
    \/ RenderPullRequests
    \/ RenderDashboard
    \/ FetchPRs
    \/ FetchReviews
    \/ SubmitReview

SpecFetch == InitFetch /\ [][NextFetch]_vars

\* what a response of GET /api/prs can carry for one PR in the list
\* view: any status string (the three of the interface and one outside
\* it), few approvals, nobody pending, updated no earlier than created
ListStatuses == Statuses \cup {"draft"}

ListPullRequest ==
    {p \in PullRequest(PRNumbers, ListStatuses, 0..1, {1, 2}) :
        /\ p.requested_reviewers = <<>>
        /\ p.created_at <= p.updated_at}

\* the review lists of the list view: nothing, or one review of PR 1
ListReviews ==
    SeqsUpTo({r \in Review({1}, {1}, {TRUE}) :
                 /\ r.reviewer_username = "x"
                 /\ r.review_state # "commented"}, 1)

\* the PR list view with both queries resolved: no PR, one, or two with
\* different ids in either order
InitList ==
    /\ prs \in {s \in SeqsUpTo(ListPullRequest, Cardinality(PRNumbers)) :
                  \A i, j \in DOMAIN s : s[i].id = s[j].id => i = j}
    /\ allReviews \in ListReviews
    \* enabled: prs.length > 0
    /\ Len(prs) = 0 => allReviews = <<>>
    /\ filters = DefaultFilters
    /\ isLoading = FALSE
    /\ server = NoServer
    /\ view = NoView
    /\ reviewsFor = prs
    /\ reviewsStatus = "success"
    /\ NoSocket
    /\ NoCategorization

NextList ==
    \/ RenderPullRequests
    \/ RenderDashboard
    \/ updateFilter
    \/ toggleSortOrder
    \/ clearFilters

SpecList == InitList /\ [][NextList]_vars

\* the overview with up to MaxPRs fetched PRs, PR i at position i, each
\* with any status and one of two update times; no reviews
InitRecent ==
    /\ \E n \in 0..MaxPRs :
          \E c \in [1..n -> Statuses \X {1, 2}] :
              prs = [i \in 1..n |->
                        [id |-> i,
                         github_pr_number |-> i,
                         status |-> c[i][1],
                         current_approvals_count |-> 0,
                         created_at |-> 1,
                         updated_at |-> c[i][2],
                         requested_reviewers |-> <<>>,
                         pending_reviewers |-> <<>>]]
    /\ allReviews = <<>>
    /\ filters = DefaultFilters
    /\ isLoading = FALSE
    /\ server = NoServer
    /\ view = NoView
    /\ reviewsFor = prs
    /\ reviewsStatus = "success"
    /\ NoSocket
    /\ NoCategorization

NextRecent == RenderDashboard

SpecRecent == InitRecent /\ [][NextRecent]_vars

\* the review logs of a backend that holds two PRs: at most one record of
\* a reviewer per PR, stamped in the order of submission
ReviewLogs ==
    {log \in SeqsUpTo(Review(PRNumbers, 1..MaxReviews, {TRUE}), MaxReviews) :
        /\ \A i \in DOMAIN log : log[i].submitted_at = i
        /\ \A i, j \in DOMAIN log :
              (/\ log[i].pr_id = log[j].pr_id
               /\ log[i].reviewer_username = log[j].reviewer_username)
              => i = j}

\* the PR list is cached: two open PRs with the approval counts of the
\* backend's log; the reviews have not been fetched yet, and the backend
\* fails the reviews requests of some of the PRs
InitReviews ==
    /\ server \in [status : {"open"},
                    requested_reviewers : {<<>>},
                    reviews : ReviewLogs,
                    failing : SUBSET PRNumbers]
    /\ prs = [i \in 1..2 |->
                [id |-> i,
                 github_pr_number |-> i,
                 status |-> "open",
                 current_approvals_count |->
                     Cardinality(latestApprovers(serverReviews(server, i))),
                 created_at |-> 1,
                 updated_at |-> 1,
                 requested_reviewers |-> <<>>,
                 pending_reviewers |-> <<>>]]
    /\ allReviews = <<>>
    /\ filters = DefaultFilters
    /\ isLoading = FALSE
    /\ view = NoView
    /\ reviewsFor = <<>>
    /\ reviewsStatus = "pending"
    /\ NoSocket
    /\ NoCategorization

NextReviews ==
    \/ RenderPullRequests
    \/ RenderDashboard
    \/ FetchReviews

SpecReviews == InitReviews /\ [][NextReviews]_vars

\* the page is about to be opened at hour 0; the storage holds nothing,
\* text that is not JSON, an entry with an unparsable timestamp, or an
\* entry written at hour 0
InitCategorization ==
    /\ prs = <<>>
    /\ allReviews = <<>>
    /\ filters = DefaultFilters
    /\ isLoading = TRUE
    /\ server = NoServer
    /\ view = NoView
    /\ reviewsFor = <<>>
    /\ reviewsStatus = "pending"
    /\ NoSocket
    /\ localStorage \in
          {<<>>} \cup {<<e>> : e \in {x \in StoredEntry :
                                        /\ x.data = "a"
                                        /\ x.timestamp \in {<<>>, <<0>>}
                                        /\ ~x.json => x.timestamp = <<>>}}
    /\ now = 0
    /\ categorization = [status |-> "idle", data |-> <<>>, inFlight |-> <<>>]

NextCategorization ==
    \/ CategorizationMount
    \/ CategorizationRequest
    \/ CategorizationResolve
    \/ CategorizationUnmount
    \/ Tick

SpecCategorization == InitCategorization /\ [][NextCategorization]_vars

\* the page has just been opened, as in InitFetch; the list view mounts,
\* its effect connects, and the backend pushes messages
InitSocket == InitFetch

NextSocket ==
    \/ RenderPullRequests
    \/ WebSocketEffect
    \/ WebSocketEffectAgain
    \/ SocketOpen
    \/ SocketClose
    \/ ServerPush
    \/ OnMessage
    \/ FetchPRs

SpecSocket == InitSocket /\ [][NextSocket]_vars

---------------------------------------------------------------------------
(* Properties                                                              *)

\* the cards on screen
Cards == Range(view.cards)

HasChangesRequested(c) == someChangesRequested(c.reviews)

IsOpenCard(c) == c.pr.status = "open"

Approvals(c) == c.pr.current_approvals_count

Pending(c) == Len(c.pr.pending_reviewers)

\* C1: every card of a merged or closed PR is labelled "Merged", whatever
\* its approval count, pending reviewers and reviews are.
C1_MergedLabel ==
    \A c \in Cards :
        c.pr.status \in {"merged", "closed"} => c.label = "Merged"

\* a closed PR with approvals, a pending reviewer and a changes_requested
\* review is on screen, labelled "Merged"
C1_Witness ==
    \E c \in Cards :
        /\ c.pr.status = "closed"
        /\ Approvals(c) > 0
        /\ Pending(c) > 0
        /\ HasChangesRequested(c)
        /\ c.label = "Merged"

\* C2: every card of an open PR with no pending reviewers and at least one
\* approval is labelled "Ready to merge" with severity success (the
\* statusColor prop and the badge shown), whatever reviews exist.
C2_ReadyToMerge ==
    \A c \in Cards :
        (IsOpenCard(c) /\ Pending(c) = 0 /\ Approvals(c) >= 1)
            => /\ c.label = "Ready to merge"
               /\ c.statusColor = "success"
               /\ c.badge = "success"

\* Scenario B with a changes_requested review on top: roster [x, y], nobody
\* pending, two approvals, and the card is "Ready to merge"
C2_Witness ==
    \E c \in Cards :
        /\ IsOpenCard(c)
        /\ c.pr.requested_reviewers = <<"x", "y">>
        /\ c.pr.pending_reviewers = <<>>
        /\ Approvals(c) = 2
        /\ HasChangesRequested(c)
        /\ c.label = "Ready to merge"
        /\ c.statusColor = "success"

\* C3 as stated: every card of an open PR with zero approvals and at least
\* one changes_requested review is labelled "Needs review".
C3_Original ==
    \A c \in Cards :
        (IsOpenCard(c) /\ Approvals(c) = 0 /\ HasChangesRequested(c))
            => c.label = "Needs review"

\* C3 amended: every card of an open PR with zero approvals, at least one
\* pending reviewer and at least one changes_requested review is labelled
\* "Needs review", never "Changes requested" (with no pending reviewer
\* the "No reviewers assigned" rule comes first).
C3_NeedsReviewBeforeChanges ==
    \A c \in Cards :
        (IsOpenCard(c) /\ Approvals(c) = 0 /\ HasChangesRequested(c))
            => /\ c.label # "Changes requested"
               /\ Pending(c) >= 1 => c.label = "Needs review"
               /\ Pending(c) = 0 => c.label = "No reviewers assigned"

\* Scenario D: one changes_requested review, zero approvals, one reviewer
\* still pending, and the card says "Needs review"
C3_Witness ==
    \E c \in Cards :
        /\ IsOpenCard(c)
        /\ Approvals(c) = 0
        /\ Pending(c) = 1
        /\ Len(c.reviews) = 1
        /\ HasChangesRequested(c)
        /\ c.label = "Needs review"

\* C4 as stated: the severity computed for every merged or closed PR is
\* success.
C4_MergedSeverity ==
    \A c \in Cards :
        c.pr.status \in {"merged", "closed"} => c.statusColor = "success"

\* C5: every card of an open PR with zero approvals and no pending
\* reviewers has totalRequired 0, the label "No reviewers assigned" and
\* severity primary.
C5_NoReviewersAssigned ==
    \A c \in Cards :
        (IsOpenCard(c) /\ Approvals(c) = 0 /\ Pending(c) = 0)
            => /\ c.totalRequired = 0
               /\ c.label = "No reviewers assigned"
               /\ c.statusColor = "primary"
               /\ c.badge = "primary"

\* Scenario C: no requested reviewers, no reviews
C5_Witness ==
    \E c \in Cards :
        /\ IsOpenCard(c)
        /\ c.pr.requested_reviewers = <<>>
        /\ c.reviews = <<>>
        /\ Approvals(c) = 0
        /\ c.label = "No reviewers assigned"
        /\ c.statusColor = "primary"

\* C6: every card of an open PR with a >= 1 approvals, p >= 1 pending
\* reviewers and no changes_requested review has totalRequired a + p, the
\* label "a/(a+p) approvals" and severity primary; one approval and one
\* pending reviewer give "1/2 approvals".
C6_ApprovalFraction ==
    \A c \in Cards :
        (/\ IsOpenCard(c)
         /\ Approvals(c) >= 1
         /\ Pending(c) >= 1
         /\ ~HasChangesRequested(c))
            => /\ c.totalRequired = Approvals(c) + Pending(c)
               /\ c.label = ToString(Approvals(c)) \o "/"
                             \o ToString(Approvals(c) + Pending(c))
                             \o " approvals"
               /\ (Approvals(c) = 1 /\ Pending(c) = 1)
                     => c.label = "1/2 approvals"
               /\ (Approvals(c) = 2 /\ Pending(c) = 2)
                     => c.label = "2/4 approvals"
               /\ c.statusColor = "primary"
               /\ c.badge = "primary"

\* Scenario A: roster [x, y], y pending, one approved review from x
C6_Witness ==
    \E c \in Cards :
        /\ IsOpenCard(c)
        /\ c.pr.requested_reviewers = <<"x", "y">>
        /\ c.pr.pending_reviewers = <<"y">>
        /\ Approvals(c) = 1
        /\ Len(c.reviews) = 1
        /\ c.reviews[1].reviewer_username = "x"
        /\ c.reviews[1].review_state = "approved"
        /\ c.label = "1/2 approvals"
        /\ c.statusColor = "primary"

\* the record of reviewer u with the greatest submitted_at (the later one
\* in the array when two share it)
LatestRecord(reviews, u) ==
    LET own == recordsOf(reviews, u)
        k == CHOOSE i \in DOMAIN own :
                \A j \in DOMAIN own :
                    \/ own[j].submitted_at < own[i].submitted_at
                    \/ own[j].submitted_at = own[i].submitted_at /\ j <= i
    IN own[k]

\* the reviewers with at least one record
Responded(reviews) == {reviews[i].reviewer_username : i \in DOMAIN reviews}

\* C7 as stated, for the changes-requested state: on every card a reviewer
\* is listed under changes requested only if the reviewer's record with
\* the greatest submitted_at requests changes, and the card counts as
\* "changes requested" (label or warning color) only if some reviewer's
\* last record does: a changes_requested review superseded by a later
\* approval of the same reviewer counts for nothing.
C7_LatestRecordDecides ==
    \A c \in Cards :
        /\ \A u \in Range(c.changesAll) :
              LatestRecord(c.reviews, u).review_state = "changes_requested"
        /\ (c.label = "Changes requested" \/ c.statusColor = "warning")
              => \E u \in Responded(c.reviews) :
                    LatestRecord(c.reviews, u).review_state = "changes_requested"

\* C8 as stated: on every card the approved, changes-requested and pending
\* reviewers shown are pairwise disjoint.
C8_DisjointReviewerSets ==
    \A c \in Cards :
        /\ Range(c.approved) \cap Range(c.changes) = {}
        /\ Range(c.approved) \cap Range(c.pending) = {}
        /\ Range(c.changes) \cap Range(c.pending) = {}

\* C9 as stated: on every card a reviewer shown as pending (and counted in
\* totalRequired) is in requested_reviewers and has no review record at
\* all among the reviews of the PR.
C9_PendingOnlyIfSilent ==
    \A c \in Cards :
        \A u \in Range(c.pendingAll) :
            /\ u \in Range(c.pr.requested_reviewers)
            /\ u \notin Responded(c.reviews)

\* the dynamic rule: open, nobody pending, at least one approval
DynamicReady(pr) ==
    /\ pr.status = "open"
    /\ Len(pr.pending_reviewers) = 0
    /\ pr.current_approvals_count > 0

\* C10 as stated: the quick stats, the card, the Analytics metrics and the
\* detail page all decide ready-to-merge for an open PR by the dynamic
\* rule (the card with approvals + pending as the required total).
C10_SameDynamicRule ==
    LET ready == Len(SelectSeq(prs, DynamicReady))
        allOpen == \A i \in DOMAIN prs : prs[i].status = "open"
    IN /\ \A i \in DOMAIN view.stats : view.stats[i].readyToMerge = ready
       /\ \A c \in Cards :
             IsOpenCard(c) =>
                /\ (c.label = "Ready to merge") <=> DynamicReady(c.pr)
                /\ c.totalRequired = Approvals(c) + Pending(c)
       /\ \A i \in DOMAIN view.analytics :
             allOpen => view.analytics[i].readyToMerge = ready
       /\ \A i \in DOMAIN view.detail :
             LET d == view.detail[i]
             IN d.pr.status = "open" => (d.readyBadge <=> DynamicReady(d.pr))

\* the PRs of the cards of the list view, in the order shown
Shown == [i \in DOMAIN view.cards |-> view.cards[i].pr]

\* pr satisfies every active filter of f
PassesFilters(pr, reviews, f) ==
    /\ f.status # "all" => pr.status = f.status
    /\ f.needsReview => pr.current_approvals_count = 0
    /\ f.hasChangesRequested =>
          \E i \in DOMAIN reviews :
              /\ reviews[i].pr_id = pr.github_pr_number
              /\ reviews[i].review_state = "changes_requested"

\* C11: the list view shows exactly the PRs of the input that satisfy every
\* active filter at once, each one once, and all PRs of the input when no
\* filter is active.
C11_FilteredExactly ==
    view.route = "/pull-requests" =>
        LET passing == {i \in DOMAIN prs :
                           PassesFilters(prs[i], allReviews, filters)}
        IN /\ Range(Shown) = {prs[i] : i \in passing}
           /\ Len(Shown) = Cardinality(passing)
           /\ ~hasActiveFilters(filters) => Len(Shown) = Len(prs)

\* two filters are active at once; one PR passes both and is shown, the
\* other passes only one of them and is not
C11_Witness ==
    /\ view.route = "/pull-requests"
    /\ filters.status = "open"
    /\ filters.needsReview
    /\ Len(prs) = 2
    /\ Len(Shown) = 1
    /\ \E i \in DOMAIN prs :
          /\ prs[i] # Shown[1]
          /\ prs[i].status = "open"
          /\ prs[i].current_approvals_count = 1

\* C12: the cards are a permutation of the filtered PRs whose sort keys
\* are non-decreasing when sortOrder is 'asc' and non-increasing when it
\* is 'desc'.
C12_SortedByKey ==
    view.route = "/pull-requests" =>
        /\ \A pr \in Range(prs) :
              PassesFilters(pr, allReviews, filters) =>
                  Cardinality({i \in DOMAIN Shown : Shown[i] = pr}) = 1
        /\ \A i, j \in DOMAIN Shown :
              i < j =>
                  IF filters.sortOrder = "asc"
                  THEN sortValue(Shown[i], filters.sortBy)
                          <= sortValue(Shown[j], filters.sortBy)
                  ELSE sortValue(Shown[i], filters.sortBy)
                          >= sortValue(Shown[j], filters.sortBy)

\* two PRs with different approval counts, fetched in ascending order of
\* them, are shown in descending order
C12_Witness ==
    /\ view.route = "/pull-requests"
    /\ filters.sortBy = "approvals"
    /\ filters.sortOrder = "desc"
    /\ Len(prs) = 2
    /\ prs[1].current_approvals_count < prs[2].current_approvals_count
    /\ Shown = <<prs[2], prs[1]>>

\* C13 as stated: cards with equal sort keys stand in the order of their PR
\* identifiers, so the order shown does not depend on the order of the
\* input.
C13_TiesById ==
    view.route = "/pull-requests" =>
        \A i, j \in DOMAIN Shown :
            (/\ i < j
             /\ sortValue(Shown[i], filters.sortBy)
                   = sortValue(Shown[j], filters.sortBy))
                => Shown[i].id < Shown[j].id

\* the per-status counts the quick stats hold: open and merged (there is
\* no other count keyed by a lifecycle status)
StatusCounts(s) == s.open + s.merged

\* C14 as stated: the quick stats give the total count, and their
\* per-status counts sum to the total.
C14_StatusCountsSumToTotal ==
    \A i \in DOMAIN view.stats :
        /\ view.stats[i].total = Len(prs)
        /\ StatusCounts(view.stats[i]) = view.stats[i].total

\* num1/den1 <= num2/den2 for fractions with positive denominators
FracLeq(f, g) == f.num * g.den <= g.num * f.den

\* C15: on every card, one more approval with the same pending reviewers
\* gives a progress percentage (and a bar width) that is not smaller than
\* the one shown.
C15_ProgressMonotone ==
    \A c \in Cards :
        LET more == [c.pr EXCEPT !.current_approvals_count = @ + 1]
        IN /\ c.progressPercentage = progressPercentage(c.pr)
           /\ FracLeq(c.progressPercentage, progressPercentage(more))
           /\ FracLeq(c.barWidth, barWidth(progressPercentage(more)))

\* a card at 1 of 2 (50%), which one more approval would take to 2 of 3
C15_Witness ==
    \E c \in Cards :
        /\ Approvals(c) = 1
        /\ Pending(c) = 1
        /\ c.progressPercentage = [num |-> 100, den |-> 2]
        /\ progressPercentage([c.pr EXCEPT !.current_approvals_count = 2])
              = [num |-> 200, den |-> 3]

\* C16: on every card the progress percentage is 100 * approvals /
\* totalRequired when totalRequired > 0 and 0 when it is 0, the ratio lies
\* in [0,1], and the bar width lies between 0% and 100%.
C16_ProgressRatio ==
    \A c \in Cards :
        LET pct == c.progressPercentage
            total == Approvals(c) + Pending(c)
        IN /\ pct.den > 0
           /\ total > 0 => pct.num * total = 100 * Approvals(c) * pct.den
           /\ total = 0 => pct.num = 0
           /\ 0 <= pct.num /\ pct.num <= 100 * pct.den
           /\ c.barWidth.den > 0
           /\ 0 <= c.barWidth.num /\ c.barWidth.num <= 100 * c.barWidth.den

\* a card at 2 of 3: two thirds of 100%, and a bar of that width
C16_Witness ==
    \E c \in Cards :
        /\ Approvals(c) = 2
        /\ Pending(c) = 1
        /\ c.showProgress
        /\ c.progressPercentage = [num |-> 200, den |-> 3]
        /\ c.barWidth = c.progressPercentage

\* C17 as stated: a PR whose status is none of open, merged, closed gets
\* the sentinel label "Unknown" with severity primary.
C17_UnknownStatusSentinel ==
    \A c \in Cards :
        c.pr.status \notin Statuses =>
            /\ c.label = "Unknown"
            /\ c.statusColor = "primary"
            /\ c.badge = "primary"

\* C18 as stated: with an empty PR list or an empty review list every
\* metric of the Analytics panel is a defined number, the counters being 0
\* for an empty PR list, and every PR is still classified.
C18_DefinedOnEmptyInput ==
    (Len(prs) = 0 \/ Len(allReviews) = 0) =>
        /\ \A i \in DOMAIN view.analytics :
              LET m == view.analytics[i]
              IN /\ m.openTrendValue # "NaN%"
                 /\ Len(prs) = 0 =>
                       /\ m.totalPRs = 0 /\ m.openPRs = 0
                       /\ m.prsNeedingReview = 0
                       /\ m.prsWithChangesRequested = 0
                       /\ m.readyToMerge = 0 /\ m.mergedPRs = 0
        /\ view.route = "/pull-requests" /\ ~hasActiveFilters(filters)
              => Len(view.cards) = Len(prs)

\* the PR list has been fetched and the ['reviews'] query has not resolved
ReviewsUnresolved == ~isLoading /\ reviewsFor = <<>>

\* C19 as stated: while the PR list is fetched and its reviews are not,
\* the view is rendered with an empty review set and every open PR is
\* labelled "Needs review" or "No reviewers assigned".
C19_DegradesWithoutReviews ==
    (ReviewsUnresolved /\ DashboardMounted) =>
        /\ allReviews = <<>>
        /\ view.route = "/pull-requests" => Len(view.cards) = Len(prs)
        /\ \A c \in Cards :
              /\ c.reviews = <<>>
              /\ IsOpenCard(c) =>
                    c.label \in {"Needs review", "No reviewers assigned"}

\* C20 as stated: once reviews have loaded, the review collection a
\* rendered view uses was fetched for the PR list that view uses.
C20_ConsistentSnapshot ==
    (DashboardMounted /\ ~isLoading /\ reviewsFor # <<>>) => reviewsFor = prs

\* the label "a/t approvals"
FractionLabel(a, t) == ToString(a) \o "/" \o ToString(t) \o " approvals"

\* the color that goes with a label of an open PR
ColorOfLabel(label) ==
    CASE label = "Ready to merge" -> "success"
      [] label = "No reviewers assigned" -> "primary"
      [] label = "Needs review" -> "danger"
      [] label = "Changes requested" -> "warning"
      [] OTHER -> "primary"

\* C23: on every card of an open PR the label of getStatusText and the
\* color of getStatusColor belong together: "Ready to merge" with success,
\* "No reviewers assigned" with primary, "Needs review" with danger,
\* "Changes requested" with warning, "a/t approvals" with primary.
C23_LabelAndColorAgree ==
    \A c \in Cards :
        IsOpenCard(c) =>
            /\ c.statusColor = ColorOfLabel(c.label)
            /\ c.label \in {"Ready to merge", "No reviewers assigned",
                            "Needs review", "Changes requested",
                            FractionLabel(Approvals(c),
                                          Approvals(c) + Pending(c))}

\* an open PR with an approval, a pending reviewer and a changes_requested
\* review: "Changes requested" in warning
C23_Witness ==
    \E c \in Cards :
        /\ IsOpenCard(c)
        /\ Approvals(c) = 1
        /\ Pending(c) = 1
        /\ HasChangesRequested(c)
        /\ c.label = "Changes requested"
        /\ c.statusColor = "warning"

C22_InputsUnchanged == [][prs' = prs /\ allReviews' = allReviews]_vars

\* the default sort (updated, desc) has put the second PR of the fetched
\* list first on screen, and the fetched list still has its own order
C22_Witness ==
    /\ view.route = "/pull-requests"
    /\ ~hasActiveFilters(filters)
    /\ filters.sortBy = "updated" /\ filters.sortOrder = "desc"
    /\ Len(prs) = 2
    /\ prs[1].updated_at < prs[2].updated_at
    /\ Shown = <<prs[2], prs[1]>>

\* C24 as stated: every row of the Recent Activity list carries the label
\* and the severity that the card classification gives the same PR and
\* reviews.
C24_RecentMatchesCard ==
    \A i \in DOMAIN view.recent :
        LET item == view.recent[i]
            card == listCard(item.pr, allReviews)
        IN /\ item.label = card.label
           /\ item.statusColor = card.statusColor

\* the PRs of the Recent Activity rows, in the order shown
Recent == [i \in DOMAIN view.recent |-> view.recent[i].pr]

\* C30: the Recent Activity list holds at most 5 PRs of the fetched list,
\* all open, in non-increasing order of updated_at, and no open PR left
\* out was updated later than one that is included.
C30_RecentActivity ==
    (view.route = "/" /\ ~isLoading) =>
        /\ Len(Recent) <= 5
        /\ Range(Recent) \subseteq Range(prs)
        /\ \A i, j \in DOMAIN Recent : Recent[i] = Recent[j] => i = j
        /\ \A i \in DOMAIN Recent : Recent[i].status = "open"
        /\ \A i, j \in DOMAIN Recent :
              i < j => Recent[i].updated_at >= Recent[j].updated_at
        /\ \A pr \in Range(prs) \ Range(Recent) :
              pr.status = "open" =>
                  \A q \in Range(Recent) : pr.updated_at <= q.updated_at

\* six open PRs: the first of the fetched list is the oldest and is the
\* one left out, the last is the newest and stands first
C30_Witness ==
    /\ view.route = "/"
    /\ Len(prs) = 6
    /\ \A i \in DOMAIN prs : prs[i].status = "open"
    /\ prs[1].updated_at = 1
    /\ \A i \in 2..6 : prs[i].updated_at = 2
    /\ Len(Recent) = 5
    /\ Recent = SubSeq(prs, 2, 6)

\* C21: a step that delivers a push message to its open socket leaves a
\* refetch of the PR list under way when the type is 'prs_updated', and
\* changes nothing but the inbox when the type is any other.
C21_PushTriggersRefetch ==
    [][(/\ inbox # <<>>
        /\ inbox' = Tail(inbox)
        /\ sockets[Head(inbox).socket] = "open")
          => IF Head(inbox).type = "prs_updated"
             THEN fetching'
             ELSE UNCHANGED <<prs, allReviews, filters, isLoading, view,
                              server, reviewsFor, reviewsStatus, ws, sockets,
                              fetching, cacheVars>>]_vars

\* a 'prs_updated' message has been delivered on the open socket and the
\* refetch it started is in flight
C21_Witness ==
    /\ fetching
    /\ inbox = <<>>
    /\ ws # 0
    /\ sockets[ws] = "open"

\* C26 as stated: whenever the most recently created WebSocket is open,
\* the connection indicator state ws is not null.
C26_IndicatorFollowsCurrentSocket ==
    (sockets # <<>> /\ sockets[Len(sockets)] = "open") => ws # 0

\* the entry in the storage is readable and its age is under 24 hours
FreshEntry ==
    /\ localStorage # <<>>
    /\ localStorage[1].json
    /\ localStorage[1].timestamp # <<>>
    /\ now - localStorage[1].timestamp[1] < 24

\* the step in which the categorization query reads the cache
ReadsCache == categorization.status = "idle" /\ categorization'.status # "idle"

\* C25: a read of the categorization cache returns the stored data when
\* the age of the entry, now minus its timestamp, is strictly less than 24
\* hours, and undefined when the entry is 24 hours old or older or missing.
C25_CacheFreshOnly ==
    [][ReadsCache =>
          /\ FreshEntry =>
                categorization'.data = <<localStorage[1].data>>
          /\ ~FreshEntry => categorization'.data = <<>>]_vars

\* an entry written at hour 0 has been read at hour 23 and its data is
\* the initial data of the query
C25_Witness ==
    /\ categorization.status = "initial"
    /\ now = 23
    /\ localStorage = <<[json |-> TRUE, timestamp |-> <<0>>, data |-> "a"]>>
    /\ categorization.data = <<"a">>

\* C28: a read of an entry that is not JSON, or whose timestamp cannot be
\* parsed, gives undefined without throwing; and when a fetched response
\* arrives the query returns it whether or not the cache could be written.
C28_CacheFailuresContained ==
    [][/\ (/\ ReadsCache
           /\ localStorage # <<>>
           /\ ~localStorage[1].json \/ localStorage[1].timestamp = <<>>)
          => /\ categorization'.status = "initial"
             /\ categorization'.data = <<>>
       /\ (/\ categorization.inFlight # <<>>
           /\ categorization'.inFlight = <<>>
           /\ categorization'.status # "idle")
          => /\ categorization'.status = "success"
             /\ categorization'.data = categorization.inFlight]_vars

\* a response has been fetched and returned although nothing could be
\* stored: the storage is as empty as before
C28_Witness ==
    /\ categorization.status = "success"
    /\ categorization.data = <<"b">>
    /\ localStorage = <<>>

C27_Witness ==
    /\ view.route = "/"
    /\ reviewsStatus = "success"
    /\ server.failing = {1}
    /\ \E r \in Range(allReviews) : r.pr_id = 2

=============================================================================
